---- MODULE Spec2Model ----
(***************************************************************************)
(* Position sizing (UnifiedPositionCalculator), the trade ledger           *)
(* (TradeManager) and partial sales (PartialSaleManager) of the            *)
(* leveraged-trading-calculator, as a state machine.                       *)
(*                                                                         *)
(* Numbers.  The program computes in Python floats.  The model computes    *)
(* exactly, in integers and reduced fractions:                             *)
(*   - prices, units, leverage, holding days and percentages are integers; *)
(*   - the calculator's money amounts that carry a "/ 100" of a percentage *)
(*     (max_risk, the per-unit costs, total_risk_per_unit, the cost        *)
(*     totals) are kept in hundredths (value * 100), so they stay integer; *)
(*   - quotients kept by the program as floats (r_multiple,                *)
(*     final_r_multiple, portfolio_percentage) are fractions [n, d].       *)
(* The input sets below are chosen so that every float operation of the    *)
(* program on them is exact (see each set), hence the integer model and    *)
(* the float program agree on them.                                        *)
(***************************************************************************)
EXTENDS Integers, Sequences, FiniteSets, TLC

VARIABLES
    calc,       \* the UnifiedPositionCalculator object: <<>> before construction, else <<fields>>
    trades,     \* TradeManager.trades: trade id -> Trade
    next_id,    \* the next fresh trade id (uuid4 never repeats)
    calls,      \* number of ledger operations called so far, queries not counted
    op,         \* name of the last operation called
    ret,        \* what it returned: <<>> is None, <<v>> is the value v
    error       \* the exception it raised, "none" when it returned

vars == <<calc, trades, next_id, calls, op, ret, error>>

\* Python's None and a present value of an Optional field.
None == <<>>
Some(v) == <<v>>

----------------------------------------------------------------------------
\* Arithmetic helpers

Abs(x) == IF x < 0 THEN -x ELSE x

Sign(x) == IF x < 0 THEN -1 ELSE IF x > 0 THEN 1 ELSE 0

\* int(a / b) of Python for b # 0: the quotient truncated toward zero.
TruncDiv(a, b) == Sign(a) * Sign(b) * (Abs(a) \div Abs(b))

RECURSIVE Gcd(_, _)
Gcd(a, b) == IF b = 0 THEN a ELSE Gcd(b, a % b)

\* The float quotient n / d (d # 0) as a reduced fraction with positive denominator.
Frac(n, d) ==
    LET g == Gcd(Abs(n), Abs(d))
    IN  [n |-> Sign(d) * (n \div g), d |-> Abs(d) \div g]

\* The float 0 (and the int 0 that Python's "else 0" yields, equal to it).
Zero == [n |-> 0, d |-> 1]

----------------------------------------------------------------------------
\* UnifiedPositionCalculator (core/calculator.py)

\* Inputs of the calculator.  For each of these the program's float results
\* are exact: 1/100 and 100/100 times 1000 or 50000; -10/100, -5/100, 0/100
\* and 1/100 times 100 (checked against the program).
PortfolioValues == {0, 1000, 50000}
RiskPercentages == {0, 1, 100, 101}
EntryPrices == {0, 100}
StopLosses == {0, 95, 100, 105}
ProductTypes == {"spot", "cfd_long", "cfd_short", "knockout_long", "knockout_short", "future"}
Leverages == {0, 1, 5}
SpreadPercents == {-10, -5, 0, 1}
OvernightPercents == {0, 1}
HoldingDayCounts == {2}

valid_products == {"spot", "cfd_long", "cfd_short", "knockout_long", "knockout_short"}

short_products == {"cfd_short", "knockout_short"}

\* product_type.startswith("cfd")
is_cfd(product_type) == product_type \in {"cfd_long", "cfd_short"}

\* __init__: the exception raised for the arguments, "none" when they pass.
init_error(portfolio_value, risk_percentage) ==
    IF portfolio_value <= 0 THEN "ValueError: portfolio_value"
    ELSE IF risk_percentage <= 0 \/ risk_percentage > 100 THEN "ValueError: risk_percentage"
    ELSE "none"

\* The object __init__ builds.  risk_percentage holds the decimal fraction
\* (percent / 100) in hundredths; max_risk is in hundredths.
new_calculator(portfolio_value, risk_percentage) ==
    [portfolio_value |-> portfolio_value,
     risk_percentage |-> risk_percentage,
     max_risk |-> portfolio_value * risk_percentage]

\* validate_inputs without its leverage check.
validate_inputs_no_leverage(entry_price, stop_loss, product_type, leverage) ==
    IF entry_price <= 0 THEN "ValueError: entry_price"
    ELSE IF stop_loss <= 0 THEN "ValueError: stop_loss"
    ELSE IF product_type \notin {"spot", "cfd_long", "cfd_short", "knockout_long",
                                 "knockout_short"}
         THEN "ValueError: product_type"
    ELSE "none"

\* _validate_inputs: the exception raised, "none" when the inputs pass.
validate_inputs(entry_price, stop_loss, product_type, leverage) ==
    IF entry_price <= 0 THEN "ValueError: entry_price"
    ELSE IF stop_loss <= 0 THEN "ValueError: stop_loss"
    ELSE IF leverage < 1 THEN "ValueError: leverage"
    ELSE IF product_type \notin valid_products THEN "ValueError: product_type"
    ELSE "none"

\* direction_error comparing strictly, so that entry_price = stop_loss passes.
direction_error_strict(entry_price, stop_loss, is_short) ==
    IF is_short
    THEN IF entry_price > stop_loss THEN "ValueError: short direction" ELSE "none"
    ELSE IF entry_price < stop_loss THEN "ValueError: long direction" ELSE "none"

\* The direction check of calculate_position: the exception raised, or "none".
direction_error(entry_price, stop_loss, is_short) ==
    IF is_short
    THEN IF entry_price >= stop_loss THEN "ValueError: short direction" ELSE "none"
    ELSE IF entry_price <= stop_loss THEN "ValueError: long direction" ELSE "none"

\* basis_risk taken as for a long position whatever the direction.
basis_risk_long_only(entry_price, stop_loss, is_short) ==
    entry_price - stop_loss

\* basis_risk = stop_loss - entry_price (short) or entry_price - stop_loss (long)
basis_risk_of(entry_price, stop_loss, is_short) ==
    IF is_short THEN stop_loss - entry_price ELSE entry_price - stop_loss

\* total_risk_per_unit_of with the leverage left out of effective_risk.
total_risk_per_unit_unleveraged(entry_price, basis_risk, product_type, leverage, spread_percent, overnight_percent, holding_days) ==
    100 * basis_risk
        + (IF product_type = "spot" THEN 0 ELSE entry_price * spread_percent)
        + (IF product_type \in {"cfd_long", "cfd_short"}
           THEN entry_price * overnight_percent * holding_days
           ELSE 0)

\* total_risk_per_unit_of with the overnight cost charged to knockouts too.
total_risk_per_unit_overnight_always(entry_price, basis_risk, product_type, leverage, spread_percent, overnight_percent, holding_days) ==
    IF product_type = "spot"
    THEN 100 * basis_risk
    ELSE 100 * basis_risk * leverage + entry_price * spread_percent
             + entry_price * overnight_percent * holding_days

\* total_risk_per_unit_of with spot treated as a leveraged product.
total_risk_per_unit_spot_leveraged(entry_price, basis_risk, product_type, leverage, spread_percent, overnight_percent, holding_days) ==
    100 * basis_risk * leverage + entry_price * spread_percent
        + (IF product_type \in {"cfd_long", "cfd_short"}
           THEN entry_price * overnight_percent * holding_days
           ELSE 0)

\* total_risk_per_unit, in hundredths.
total_risk_per_unit_of(entry_price, basis_risk, product_type, leverage, spread_percent, overnight_percent, holding_days) ==
    IF product_type = "spot"
    THEN 100 * basis_risk
    ELSE LET effective_risk == basis_risk * leverage
             spread_cost_per_unit == entry_price * spread_percent
             overnight_cost_per_unit ==
                 IF is_cfd(product_type)
                 THEN entry_price * overnight_percent * holding_days
                 ELSE 0
         IN  100 * effective_risk + spread_cost_per_unit + overnight_cost_per_unit

\* units = int(self.max_risk / total_risk_per_unit), both in hundredths.
units_of(max_risk, total_risk_per_unit) == TruncDiv(max_risk, total_risk_per_unit)

\* The CalculationResult returned once the checks have passed and the
\* division is defined (total_risk_per_unit # 0).
calculation_result(c, entry_price, stop_loss, product_type, leverage, spread_percent, overnight_percent, holding_days) ==
    LET is_short == product_type \in short_products
        basis_risk == basis_risk_of(entry_price, stop_loss, is_short)
        spot == product_type = "spot"
        leverage_used == IF spot THEN 1 ELSE leverage
        spread_cost_per_unit == IF spot THEN 0 ELSE entry_price * spread_percent
        overnight_cost_per_unit ==
            IF ~spot /\ is_cfd(product_type)
            THEN entry_price * overnight_percent * holding_days
            ELSE 0
        total_risk_per_unit ==
            total_risk_per_unit_of(entry_price, basis_risk, product_type, leverage,
                                   spread_percent, overnight_percent, holding_days)
        units == units_of(c.max_risk, total_risk_per_unit)
        actual_investment == units * entry_price
        notional_value ==
            IF spot THEN actual_investment ELSE units * entry_price * leverage_used
        basis_risk_total == 100 * units * basis_risk
        spread_cost_total == units * spread_cost_per_unit
        overnight_cost_total == units * overnight_cost_per_unit
    IN  [portfolio_value |-> c.portfolio_value,
         max_risk |-> c.max_risk,
         risk_percent |-> c.risk_percentage,
         product_type |-> product_type,
         leverage |-> leverage_used,
         is_short |-> is_short,
         entry_price |-> entry_price,
         stop_loss |-> stop_loss,
         basis_risk_per_unit |-> basis_risk,
         total_risk_per_unit |-> total_risk_per_unit,
         units |-> units,
         actual_investment |-> actual_investment,
         notional_value |-> notional_value,
         portfolio_percentage |-> Frac(actual_investment * 100, c.portfolio_value),
         target_1r |-> IF is_short THEN entry_price - basis_risk ELSE entry_price + basis_risk,
         target_2r |-> IF is_short THEN entry_price - 2 * basis_risk
                                   ELSE entry_price + 2 * basis_risk,
         target_5r |-> IF is_short THEN entry_price - 5 * basis_risk
                                   ELSE entry_price + 5 * basis_risk,
         basis_risk_total |-> basis_risk_total,
         spread_cost_total |-> spread_cost_total,
         overnight_cost_total |-> overnight_cost_total,
         total_cost |-> basis_risk_total + spread_cost_total + overnight_cost_total]

\* calculate_position: [error, ret], ret = None when an exception is raised.
calculate_position(c, entry_price, stop_loss, product_type, leverage, spread_percent, overnight_percent, holding_days) ==
    LET verr == validate_inputs(entry_price, stop_loss, product_type, leverage)
        is_short == product_type \in short_products
        derr == direction_error(entry_price, stop_loss, is_short)
        basis_risk == basis_risk_of(entry_price, stop_loss, is_short)
        trpu == total_risk_per_unit_of(entry_price, basis_risk, product_type, leverage,
                                       spread_percent, overnight_percent, holding_days)
    IN  IF verr # "none" THEN [error |-> verr, ret |-> None]
        ELSE IF derr # "none" THEN [error |-> derr, ret |-> None]
        ELSE IF trpu = 0 THEN [error |-> "ZeroDivisionError", ret |-> None]
        ELSE [error |-> "none",
              ret |-> Some(calculation_result(c, entry_price, stop_loss, product_type,
                                              leverage, spread_percent,
                                              overnight_percent, holding_days))]

\* The state after start-up: no calculator object yet, an empty ledger.
Init ==
    /\ calc = None
    /\ trades = <<>>
    /\ next_id = 1
    /\ calls = 0
    /\ op = [name |-> "start"]
    /\ ret = None
    /\ error = "none"

\* calc = UnifiedPositionCalculator(portfolio_value, risk_percentage)
Construct(portfolio_value, risk_percentage) ==
    LET e == init_error(portfolio_value, risk_percentage)
    IN  /\ op' = [name |-> "__init__", portfolio_value |-> portfolio_value,
                  risk_percentage |-> risk_percentage]
        /\ error' = e
        /\ ret' = None
        /\ calc' = IF e = "none"
                   THEN Some(new_calculator(portfolio_value, risk_percentage))
                   ELSE calc
        /\ UNCHANGED <<trades, next_id, calls>>

\* calc.update_portfolio(new_value)
UpdatePortfolio(new_value) ==
    /\ calc # None
    /\ op' = [name |-> "update_portfolio", portfolio_value |-> new_value]
    /\ ret' = None
    /\ IF new_value <= 0
       THEN /\ error' = "ValueError: portfolio_value"
            /\ calc' = calc
       ELSE /\ error' = "none"
            /\ calc' = Some([calc[1] EXCEPT !.portfolio_value = new_value,
                                            !.max_risk = new_value * calc[1].risk_percentage])
    /\ UNCHANGED <<trades, next_id, calls>>

\* calc.calculate_position(...)
CalculatePosition(entry_price, stop_loss, product_type, leverage, spread_percent, overnight_percent, holding_days) ==
    /\ calc # None
    /\ LET r == calculate_position(calc[1], entry_price, stop_loss, product_type, leverage,
                                   spread_percent, overnight_percent, holding_days)
       IN  /\ error' = r.error
           /\ ret' = r.ret
    /\ op' = [name |-> "calculate_position", entry_price |-> entry_price,
              stop_loss |-> stop_loss, product_type |-> product_type,
              leverage |-> leverage, spread_percent |-> spread_percent,
              overnight_percent |-> overnight_percent, holding_days |-> holding_days]
    /\ UNCHANGED <<calc, trades, next_id, calls>>

NextCalc ==
    \/ \E pv \in PortfolioValues, rp \in RiskPercentages : Construct(pv, rp)
    \/ \E pv \in PortfolioValues : UpdatePortfolio(pv)
    \/ \E e \in EntryPrices, s \in StopLosses, p \in ProductTypes, l \in Leverages,
          sp \in SpreadPercents, ov \in OvernightPercents, hd \in HoldingDayCounts :
          CalculatePosition(e, s, p, l, sp, ov, hd)

\* The calculator alone: it shares no state with the ledger.
SpecCalc == Init /\ [][NextCalc]_vars

----------------------------------------------------------------------------
\* TradeManager (core/trade_manager.py) and PartialSaleManager (core/partial_sales.py)

\* At most MaxTrades trades are ever created, and at most MaxCalls ledger
\* operations are called in one run.
MaxTrades == 2
MaxCalls == 4

\* datetime.now().strftime(...): the clock is not modelled, every stamp is this one.
Now == "now"

\* Arguments of create_trade (status apart): a spot long of 2 units, a
\* leveraged short of 2 units, and a spot long sized to 0 units.
TradeInputs ==
    {[symbol |-> "NVDA", product_type |-> "spot", entry_price |-> 100, stop_loss |-> 95,
      units |-> 2, investment |-> 200, exposure |-> 200, risk_amount |-> 10,
      target_1r |-> 105, target_2r |-> 110, target_5r |-> 125,
      leverage |-> 1, spread_percent |-> 0, overnight_percent |-> 0, holding_days |-> 1],
     [symbol |-> "TSLA", product_type |-> "cfd_short", entry_price |-> 100, stop_loss |-> 105,
      units |-> 2, investment |-> 200, exposure |-> 1000, risk_amount |-> 50,
      target_1r |-> 95, target_2r |-> 90, target_5r |-> 75,
      leverage |-> 5, spread_percent |-> 0, overnight_percent |-> 0, holding_days |-> 1],
     [symbol |-> "PENNY", product_type |-> "spot", entry_price |-> 100, stop_loss |-> 95,
      units |-> 0, investment |-> 0, exposure |-> 0, risk_amount |-> 0,
      target_1r |-> 105, target_2r |-> 110, target_5r |-> 125,
      leverage |-> 1, spread_percent |-> 0, overnight_percent |-> 0, holding_days |-> 1]}

Statuses == {"planned", "open"}

\* sell_percentage arguments, within the documented 0 < p <= 100; p / 100 is
\* an exact float for each of them.
SellPercentages == {50, 100}

\* Sale and close prices: below and above the entry price.
Prices == {90, 110}

\* The updates dictionaries callers pass to update_trade.
UpdateInputs ==
    {[status |-> "open", current_stop |-> 102],
     [units |-> 0],
     [units |-> 3],
     [entry_price |-> 1, symbol |-> "X"]}

\* Trade ids a caller may pass: the ids create_trade can return and one it never returns.
TradeIds == 1 .. (MaxTrades + 1)

allowed_fields ==
    {"current_stop", "units", "status", "close_price", "close_date", "final_pnl",
     "final_r_multiple"}

\* The Trade that create_trade stores under trade_id.
new_trade(trade_id, in, status) ==
    [id |-> trade_id,
     symbol |-> in.symbol,
     created_at |-> Now,
     status |-> status,
     product_type |-> in.product_type,
     entry_price |-> in.entry_price,
     stop_loss |-> in.stop_loss,
     current_stop |-> in.stop_loss,
     leverage |-> in.leverage,
     spread_percent |-> in.spread_percent,
     overnight_percent |-> in.overnight_percent,
     holding_days |-> in.holding_days,
     units |-> in.units,
     original_units |-> in.units,
     investment |-> in.investment,
     exposure |-> in.exposure,
     risk_amount |-> in.risk_amount,
     target_1r |-> in.target_1r,
     target_2r |-> in.target_2r,
     target_5r |-> in.target_5r,
     partial_sales |-> <<>>,
     total_realized_pnl |-> 0,
     close_price |-> None,
     close_date |-> None,
     final_pnl |-> None,
     final_r_multiple |-> None]

\* A ledger that holds the new trade alone.
put_trade_alone(ts, trade_id, trade) ==
    [i \in {trade_id} |-> trade]

\* self.trades[trade_id] = trade
put_trade(ts, trade_id, trade) ==
    [i \in DOMAIN ts \cup {trade_id} |-> IF i = trade_id THEN trade ELSE ts[i]]

\* The loop of update_trade without the allowed_fields filter.
apply_updates_any_field(trade, updates) ==
    [f \in DOMAIN trade |-> IF f \in DOMAIN updates THEN updates[f] ELSE trade[f]]

\* The loop of update_trade on one trade: setattr for the allowed keys only.
apply_updates(trade, updates) ==
    [f \in DOMAIN trade |->
        IF f \in allowed_fields /\ f \in DOMAIN updates THEN updates[f] ELSE trade[f]]

\* update_trade: [trades, ret].
update_trade(ts, trade_id, updates) ==
    IF trade_id \notin DOMAIN ts
    THEN [trades |-> ts, ret |-> FALSE]
    ELSE [trades |-> [ts EXCEPT ![trade_id] = apply_updates(ts[trade_id], updates)],
          ret |-> TRUE]

\* remaining_pnl of close_trade.
remaining_pnl_of(trade, close_price) == trade.units * (close_price - trade.entry_price)

\* final_r_multiple of close_trade.
final_r_multiple_of(final_pnl, risk_amount) ==
    IF risk_amount > 0 THEN Frac(final_pnl, risk_amount) ELSE Zero

\* The updates close_trade passes to update_trade.
close_updates(trade, close_price, calculate_pnl) ==
    IF calculate_pnl
    THEN LET final_pnl == trade.total_realized_pnl + remaining_pnl_of(trade, close_price)
         IN  [status |-> "closed",
              close_price |-> Some(close_price),
              close_date |-> Some(Now),
              final_pnl |-> Some(final_pnl),
              final_r_multiple |-> Some(final_r_multiple_of(final_pnl, trade.risk_amount)),
              units |-> 0]
    ELSE [status |-> "closed",
          close_price |-> Some(close_price),
          close_date |-> Some(Now),
          units |-> 0]

\* close_trade: [trades, ret].
close_trade(ts, trade_id, close_price, calculate_pnl) ==
    IF trade_id \notin DOMAIN ts
    THEN [trades |-> ts, ret |-> FALSE]
    ELSE [trades |-> update_trade(ts, trade_id,
                                  close_updates(ts[trade_id], close_price,
                                                calculate_pnl)).trades,
          ret |-> TRUE]

\* manager.get_trade: the trade, or None for an unknown id.
get_trade(ts, trade_id) ==
    IF trade_id \in DOMAIN ts THEN Some(ts[trade_id]) ELSE None

\* delete_trade reporting success whether or not the id was known.
delete_trade_always(ts, trade_id) ==
    [trades |-> [i \in DOMAIN ts \ {trade_id} |-> ts[i]], ret |-> TRUE]

\* delete_trade: [trades, ret].
delete_trade(ts, trade_id) ==
    IF trade_id \in DOMAIN ts
    THEN [trades |-> [i \in DOMAIN ts \ {trade_id} |-> ts[i]], ret |-> TRUE]
    ELSE [trades |-> ts, ret |-> FALSE]

\* units_to_sell = int(current_units * (sell_percentage / 100))
units_to_sell_of(current_units, sell_percentage) ==
    TruncDiv(current_units * sell_percentage, 100)

\* pnl of the units sold, signed by direction.
sale_pnl_of(units_to_sell, entry_price, current_price, is_short) ==
    IF is_short
    THEN units_to_sell * (entry_price - current_price)
    ELSE units_to_sell * (current_price - entry_price)

\* r_multiple of a sale, against the entry price and the original stop.
r_multiple_of(entry_price, original_stop, current_price, is_short) ==
    LET risk_per_unit ==
            IF is_short THEN original_stop - entry_price ELSE entry_price - original_stop
        profit_per_unit ==
            IF is_short THEN entry_price - current_price ELSE current_price - entry_price
    IN  IF risk_per_unit > 0 THEN Frac(profit_per_unit, risk_per_unit) ELSE Zero

\* calculate_partial_sale recommending the move on any profit, also when the
\* stop is at the entry price already.
calculate_partial_sale_any_profit(trade, sell_percentage, current_price) ==
    LET is_short == trade.product_type \in short_products
        units_to_sell == units_to_sell_of(trade.units, sell_percentage)
        r_multiple == r_multiple_of(trade.entry_price, trade.stop_loss, current_price,
                                    is_short)
        should_move_stop == r_multiple.n > 0
    IN  [units_sold |-> units_to_sell,
         units_remaining |-> trade.units - units_to_sell,
         sale_proceeds |-> units_to_sell * current_price,
         pnl |-> sale_pnl_of(units_to_sell, trade.entry_price, current_price, is_short),
         r_multiple |-> r_multiple,
         sale_price |-> current_price,
         percentage |-> sell_percentage,
         should_move_stop |-> should_move_stop,
         recommended_stop |-> IF should_move_stop THEN trade.entry_price
                                                  ELSE trade.current_stop,
         timestamp |-> Now]

\* calculate_partial_sale measuring risk from the current stop.
calculate_partial_sale_current_stop(trade, sell_percentage, current_price) ==
    LET is_short == trade.product_type \in short_products
        units_to_sell == units_to_sell_of(trade.units, sell_percentage)
        r_multiple == r_multiple_of(trade.entry_price, trade.current_stop, current_price,
                                    is_short)
        should_move_stop == r_multiple.n > 0 /\ trade.current_stop # trade.entry_price
    IN  [units_sold |-> units_to_sell,
         units_remaining |-> trade.units - units_to_sell,
         sale_proceeds |-> units_to_sell * current_price,
         pnl |-> sale_pnl_of(units_to_sell, trade.entry_price, current_price, is_short),
         r_multiple |-> r_multiple,
         sale_price |-> current_price,
         percentage |-> sell_percentage,
         should_move_stop |-> should_move_stop,
         recommended_stop |-> IF should_move_stop THEN trade.entry_price
                                                  ELSE trade.current_stop,
         timestamp |-> Now]

\* calculate_partial_sale on the dictionary of a trade.
calculate_partial_sale(trade, sell_percentage, current_price) ==
    LET is_short == trade.product_type \in short_products
        units_to_sell == units_to_sell_of(trade.units, sell_percentage)
        r_multiple == r_multiple_of(trade.entry_price, trade.stop_loss, current_price,
                                    is_short)
        should_move_stop == r_multiple.n > 0 /\ trade.current_stop # trade.entry_price
    IN  [units_sold |-> units_to_sell,
         units_remaining |-> trade.units - units_to_sell,
         sale_proceeds |-> units_to_sell * current_price,
         pnl |-> sale_pnl_of(units_to_sell, trade.entry_price, current_price, is_short),
         r_multiple |-> r_multiple,
         sale_price |-> current_price,
         percentage |-> sell_percentage,
         should_move_stop |-> should_move_stop,
         recommended_stop |-> IF should_move_stop THEN trade.entry_price
                                                  ELSE trade.current_stop,
         timestamp |-> Now]

\* The record with the units left taken for the units sold.
sale_record_remaining(sale_details) ==
    [date |-> sale_details.timestamp,
     units_sold |-> sale_details.units_remaining,
     price |-> sale_details.sale_price,
     proceeds |-> sale_details.sale_proceeds,
     pnl |-> sale_details.pnl,
     r_multiple |-> sale_details.r_multiple,
     percentage |-> sale_details.percentage]

\* The record execute_partial_sale appends to trade.partial_sales.
sale_record(sale_details) ==
    [date |-> sale_details.timestamp,
     units_sold |-> sale_details.units_sold,
     price |-> sale_details.sale_price,
     proceeds |-> sale_details.sale_proceeds,
     pnl |-> sale_details.pnl,
     r_multiple |-> sale_details.r_multiple,
     percentage |-> sale_details.percentage]

\* sold_out_updates with the realized pnl from before the last sale.
sold_out_updates_stale(current_price, new_realized_pnl, sale_details) ==
    [status |-> "closed",
     close_price |-> Some(current_price),
     close_date |-> Some(Now),
     final_pnl |-> Some(new_realized_pnl - sale_details.pnl),
     final_r_multiple |-> Some(sale_details.r_multiple)]

\* The updates execute_partial_sale passes to update_trade once all is sold.
sold_out_updates(current_price, new_realized_pnl, sale_details) ==
    [status |-> "closed",
     close_price |-> Some(current_price),
     close_date |-> Some(Now),
     final_pnl |-> Some(new_realized_pnl),
     final_r_multiple |-> Some(sale_details.r_multiple)]

\* execute_partial_sale: [trades, ret].
execute_partial_sale(ts, trade_id, sell_percentage, current_price, auto_update_stop) ==
    IF trade_id \notin DOMAIN ts
    THEN [trades |-> ts, ret |-> None]
    ELSE LET trade == ts[trade_id]
             sale_details == calculate_partial_sale(trade, sell_percentage, current_price)
             new_units == sale_details.units_remaining
             new_realized_pnl == trade.total_realized_pnl + sale_details.pnl
             sold == [trade EXCEPT
                         !.units = new_units,
                         !.total_realized_pnl = new_realized_pnl,
                         !.partial_sales = Append(trade.partial_sales,
                                                  sale_record(sale_details)),
                         !.current_stop =
                             IF auto_update_stop /\ sale_details.should_move_stop
                             THEN sale_details.recommended_stop
                             ELSE trade.current_stop]
             ts1 == [ts EXCEPT ![trade_id] = sold]
         IN  [trades |-> IF new_units = 0
                         THEN update_trade(ts1, trade_id,
                                           sold_out_updates(current_price, new_realized_pnl,
                                                            sale_details)).trades
                         ELSE ts1,
              ret |-> Some(sale_details)]

\* manager.get_trades_by_status: the ids of the trades with that status.
get_trades_by_status(ts, status) ==
    {id \in DOMAIN ts : ts[id].status = status}

\* Every trade not yet closed taken for an open one.
get_not_closed_trades(ts) ==
    {id \in DOMAIN ts : ts[id].status # "closed"}

get_open_trades(ts) ==
    get_trades_by_status(ts, "open")

get_planned_trades(ts) ==
    get_trades_by_status(ts, "planned")

get_closed_trades(ts) ==
    get_trades_by_status(ts, "closed")

\* sum(t.<field> for t in <trades>)
RECURSIVE SumField(_, _, _)
SumField(ts, ids, field) ==
    IF ids = {} THEN 0
    ELSE LET id == CHOOSE i \in ids : TRUE
         IN  ts[id][field] + SumField(ts, ids \ {id}, field)

\* t.final_pnl or 0
final_pnl_or_0(trade) ==
    IF trade.final_pnl = None THEN 0 ELSE trade.final_pnl[1]

\* sum(t.final_pnl or 0 for t in closed_trades)
RECURSIVE SumFinalPnl(_, _)
SumFinalPnl(ts, ids) ==
    IF ids = {} THEN 0
    ELSE LET id == CHOOSE i \in ids : TRUE
         IN  final_pnl_or_0(ts[id]) + SumFinalPnl(ts, ids \ {id})

\* The float sum of two quotients.
FracAdd(a, b) ==
    Frac(a.n * b.d + b.n * a.d, a.d * b.d)

\* sum(r_multiples)
RECURSIVE SumRMultiples(_, _)
SumRMultiples(ts, ids) ==
    IF ids = {} THEN Zero
    ELSE LET id == CHOOSE i \in ids : TRUE
         IN  FracAdd(ts[id].final_r_multiple[1], SumRMultiples(ts, ids \ {id}))

\* The win rate as a share of one instead of a percentage.
win_rate_fraction(winning, closed) ==
    IF closed # 0 THEN Frac(winning, closed) ELSE Zero

\* win_rate = (len(winning_trades) / len(closed_trades) * 100) if closed_trades else 0
win_rate_of(winning, closed) ==
    IF closed # 0 THEN Frac(winning * 100, closed) ELSE Zero

\* manager.calculate_portfolio_metrics()
calculate_portfolio_metrics(ts) ==
    LET open_trades == get_open_trades(ts)
        closed_trades == get_closed_trades(ts)
        winning_trades == {id \in closed_trades : final_pnl_or_0(ts[id]) > 0}
        r_multiples == {id \in closed_trades : ts[id].final_r_multiple # None}
        r_sum == SumRMultiples(ts, r_multiples)
    IN  [total_trades |-> Cardinality(DOMAIN ts),
         open_trades |-> Cardinality(open_trades),
         closed_trades |-> Cardinality(closed_trades),
         planned_trades |-> Cardinality(get_planned_trades(ts)),
         total_investment |-> SumField(ts, open_trades, "investment"),
         total_exposure |-> SumField(ts, open_trades, "exposure"),
         total_risk |-> SumField(ts, open_trades, "risk_amount"),
         realized_pnl |-> SumFinalPnl(ts, closed_trades),
         win_rate |-> win_rate_of(Cardinality(winning_trades), Cardinality(closed_trades)),
         avg_r_multiple |-> IF r_multiples # {}
                            THEN Frac(r_sum.n, r_sum.d * Cardinality(r_multiples))
                            ELSE Zero]

\* The fields of the Trade dataclass, in declaration order.
TradeFields ==
    <<"id", "symbol", "created_at", "status", "product_type", "entry_price", "stop_loss",
      "current_stop", "leverage", "spread_percent", "overnight_percent", "holding_days",
      "units", "original_units", "investment", "exposure", "risk_amount", "target_1r",
      "target_2r", "target_5r", "partial_sales", "total_realized_pnl", "close_price",
      "close_date", "final_pnl", "final_r_multiple">>

\* The fields of Trade declared with a default (None).
DefaultedFields == {"close_price", "close_date", "final_pnl", "final_r_multiple"}

\* Trade.to_dict = asdict(self): the (key, value) items of the fields, in order.
to_dict(trade) ==
    [i \in 1 .. Len(TradeFields) |-> <<TradeFields[i], trade[TradeFields[i]]>>]

\* The keys of a dictionary given by its items.
dict_keys(data) ==
    {data[i][1] : i \in DOMAIN data}

\* data[key]
dict_get(data, key) ==
    data[CHOOSE i \in DOMAIN data : data[i][1] = key][2]

\* Trade(**data) raises TypeError on an unexpected or a missing keyword.
from_dict_error(data) ==
    LET names == {TradeFields[i] : i \in 1 .. Len(TradeFields)}
    IN  IF \/ ~(dict_keys(data) \subseteq names)
           \/ ~((names \ DefaultedFields) \subseteq dict_keys(data))
        THEN "TypeError"
        ELSE "none"

\* Trade.from_dict that leaves the defaulted fields at their default.
from_dict_defaults(data) ==
    [f \in {TradeFields[i] : i \in 1 .. Len(TradeFields)} |->
        IF f \in dict_keys(data) \ DefaultedFields THEN dict_get(data, f) ELSE None]

\* Trade.from_dict = Trade(**data)
from_dict(data) ==
    [f \in {TradeFields[i] : i \in 1 .. Len(TradeFields)} |->
        IF f \in dict_keys(data) THEN dict_get(data, f) ELSE None]

\* manager.export_to_dict()
export_to_dict(ts) ==
    [id \in DOMAIN ts |-> to_dict(ts[id])]

\* manager.import_from_dict(data): [trades, error].  self.trades is assigned
\* once the whole dictionary has been converted.
import_from_dict(ts, data) ==
    IF \E id \in DOMAIN data : from_dict_error(data[id]) # "none"
    THEN [trades |-> ts, error |-> "TypeError"]
    ELSE [trades |-> [id \in DOMAIN data |-> from_dict(data[id])], error |-> "none"]

\* A dictionary without one of its keys.
without_key(data, key) ==
    LET Keeps(item) == item[1] # key
    IN  SelectSeq(data, Keeps)

\* The record of one trade as a backup document holds it.
BackupTrade ==
    to_dict(new_trade(0, CHOOSE in \in TradeInputs : in.symbol = "NVDA", "open"))

\* The texts handed to import_trades_from_json, each with what json.loads
\* makes of it: text that does not parse, a document without the trades key,
\* a backup of one trade, a backup whose second record lacks a field, and a
\* backup whose record has a key that is no field of Trade.
JsonStrings ==
    {[parses |-> FALSE, value |-> <<>>],
     [parses |-> TRUE, value |-> <<<<"version", "1.0">>>>],
     [parses |-> TRUE,
      value |-> <<<<"version", "1.0">>, <<"trades", [id \in {0} |-> BackupTrade]>>>>],
     [parses |-> TRUE,
      value |-> <<<<"version", "1.0">>,
                  <<"trades", [id \in {-1, 0} |->
                                  IF id = 0 THEN BackupTrade
                                  ELSE without_key(BackupTrade, "symbol")]>>>>],
     [parses |-> TRUE,
      value |-> <<<<"version", "1.0">>,
                  <<"trades", [id \in {0} |-> Append(BackupTrade, <<"note", "n">>)]>>>>]}

\* DataExporter.import_trades_from_json: [trades, ret, error].  JSONDecodeError
\* and KeyError are caught and reported as False; the TypeError of
\* Trade(**data) is not caught.
import_trades_from_json(ts, json_string) ==
    IF ~json_string.parses
    THEN [trades |-> ts, ret |-> Some(FALSE), error |-> "none"]
    ELSE LET backup_data == json_string.value
         IN  IF "trades" \notin dict_keys(backup_data)
             THEN [trades |-> ts, ret |-> Some(FALSE), error |-> "none"]
             ELSE LET r == import_from_dict(ts, dict_get(backup_data, "trades"))
                  IN  IF r.error # "none"
                      THEN [trades |-> r.trades, ret |-> None, error |-> r.error]
                      ELSE [trades |-> r.trades, ret |-> Some(TRUE), error |-> "none"]

\* manager.create_trade(..., status=status)
CreateTrade(in, status) ==
    /\ calls < MaxCalls
    /\ next_id <= MaxTrades
    /\ calls' = calls + 1
    /\ trades' = put_trade(trades, next_id, new_trade(next_id, in, status))
    /\ next_id' = next_id + 1
    /\ op' = [name |-> "create_trade", trade_id |-> next_id]
    /\ ret' = Some(next_id)
    /\ error' = "none"
    /\ UNCHANGED calc

\* manager.update_trade(trade_id, updates)
UpdateTrade(trade_id, updates) ==
    LET r == update_trade(trades, trade_id, updates)
    IN  /\ calls < MaxCalls
        /\ calls' = calls + 1
        /\ trades' = r.trades
        /\ ret' = Some(r.ret)
        /\ op' = [name |-> "update_trade", trade_id |-> trade_id]
        /\ error' = "none"
        /\ UNCHANGED <<calc, next_id>>

\* manager.close_trade(trade_id, close_price, calculate_pnl)
CloseTrade(trade_id, close_price, calculate_pnl) ==
    LET r == close_trade(trades, trade_id, close_price, calculate_pnl)
    IN  /\ calls < MaxCalls
        /\ calls' = calls + 1
        /\ trades' = r.trades
        /\ ret' = Some(r.ret)
        /\ op' = [name |-> "close_trade", trade_id |-> trade_id]
        /\ error' = "none"
        /\ UNCHANGED <<calc, next_id>>

\* manager.delete_trade(trade_id)
DeleteTrade(trade_id) ==
    LET r == delete_trade(trades, trade_id)
    IN  /\ calls < MaxCalls
        /\ calls' = calls + 1
        /\ trades' = r.trades
        /\ ret' = Some(r.ret)
        /\ op' = [name |-> "delete_trade", trade_id |-> trade_id]
        /\ error' = "none"
        /\ UNCHANGED <<calc, next_id>>

\* PartialSaleManager.execute_partial_sale(manager, trade_id, sell_percentage,
\* current_price, auto_update_stop)
ExecutePartialSale(trade_id, sell_percentage, current_price, auto_update_stop) ==
    /\ calls < MaxCalls
    /\ calls' = calls + 1
    /\ LET r == execute_partial_sale(trades, trade_id, sell_percentage, current_price,
                                     auto_update_stop)
       IN  /\ trades' = r.trades
           /\ ret' = r.ret
    /\ op' = [name |-> "execute_partial_sale", trade_id |-> trade_id]
    /\ error' = "none"
    /\ UNCHANGED <<calc, next_id>>

\* manager.get_trade(trade_id)
GetTrade(trade_id) ==
    /\ ret' = get_trade(trades, trade_id)
    /\ op' = [name |-> "get_trade", trade_id |-> trade_id]
    /\ error' = "none"
    /\ UNCHANGED <<calc, trades, next_id, calls>>

\* manager.calculate_portfolio_metrics()
CalculatePortfolioMetrics ==
    /\ ret' = Some(calculate_portfolio_metrics(trades))
    /\ op' = [name |-> "calculate_portfolio_metrics"]
    /\ error' = "none"
    /\ UNCHANGED <<calc, trades, next_id, calls>>

\* manager.export_to_dict()
ExportToDict ==
    /\ ret' = Some(export_to_dict(trades))
    /\ op' = [name |-> "export_to_dict"]
    /\ error' = "none"
    /\ UNCHANGED <<calc, trades, next_id, calls>>

\* import_from_dict of the dictionary just exported, into this manager or
\* (fresh) into a new TradeManager() that is the ledger from then on.
ImportFromDict(fresh) ==
    /\ calls < MaxCalls
    /\ op.name = "export_to_dict"
    /\ LET r == import_from_dict(IF fresh THEN <<>> ELSE trades, ret[1])
       IN  /\ trades' = r.trades
           /\ error' = r.error
    /\ calls' = calls + 1
    /\ op' = [name |-> "import_from_dict"]
    /\ ret' = None
    /\ UNCHANGED <<calc, next_id>>

\* DataExporter.import_trades_from_json(manager, json_string)
ImportTradesFromJson(json_string) ==
    LET r == import_trades_from_json(trades, json_string)
    IN  /\ calls < MaxCalls
        /\ calls' = calls + 1
        /\ trades' = r.trades
        /\ ret' = r.ret
        /\ error' = r.error
        /\ op' = [name |-> "import_trades_from_json"]
        /\ UNCHANGED <<calc, next_id>>

Next ==
    \/ \E in \in TradeInputs, st \in Statuses : CreateTrade(in, st)
    \/ \E id \in TradeIds, u \in UpdateInputs : UpdateTrade(id, u)
    \/ \E id \in TradeIds, p \in Prices, c \in BOOLEAN : CloseTrade(id, p, c)
    \/ \E id \in TradeIds : DeleteTrade(id)
    \/ \E id \in TradeIds, pct \in SellPercentages, p \in Prices, a \in BOOLEAN :
          ExecutePartialSale(id, pct, p, a)

\* The ledger and the partial sales on it.
Spec == Init /\ [][Next]_vars

\* One ledger on which open trades are created and partial sales executed,
\* nothing else.
NextSales ==
    \/ \E in \in TradeInputs : CreateTrade(in, "open")
    \/ \E id \in TradeIds, pct \in SellPercentages, p \in Prices, a \in BOOLEAN :
          ExecutePartialSale(id, pct, p, a)

SpecSales == Init /\ [][NextSales]_vars

\* Open trades and the ledger operations that take a trade id, get_trade
\* among them, the flags calculate_pnl and auto_update_stop at their default.
NextLookup ==
    \/ \E in \in TradeInputs : CreateTrade(in, "open")
    \/ \E id \in TradeIds : GetTrade(id)
    \/ \E id \in TradeIds, u \in UpdateInputs : UpdateTrade(id, u)
    \/ \E id \in TradeIds, p \in Prices : CloseTrade(id, p, TRUE)
    \/ \E id \in TradeIds : DeleteTrade(id)
    \/ \E id \in TradeIds, pct \in SellPercentages, p \in Prices :
          ExecutePartialSale(id, pct, p, TRUE)

SpecLookup == Init /\ [][NextLookup]_vars

\* Trades created, sold, closed and deleted, and the portfolio metrics taken
\* at any point.
NextMetrics ==
    \/ \E in \in TradeInputs, st \in Statuses : CreateTrade(in, st)
    \/ \E id \in TradeIds, pct \in SellPercentages, p \in Prices, a \in BOOLEAN :
          ExecutePartialSale(id, pct, p, a)
    \/ \E id \in TradeIds, p \in Prices, c \in BOOLEAN : CloseTrade(id, p, c)
    \/ \E id \in TradeIds : DeleteTrade(id)
    \/ CalculatePortfolioMetrics

SpecMetrics == Init /\ [][NextMetrics]_vars

\* Trades created, sold (auto_update_stop at its default) and closed (at 110),
\* the ledger exported at any point and the export imported again.
NextExport ==
    \/ \E in \in TradeInputs, st \in Statuses : CreateTrade(in, st)
    \/ \E id \in TradeIds, pct \in SellPercentages, p \in Prices :
          ExecutePartialSale(id, pct, p, TRUE)
    \/ \E id \in TradeIds, c \in BOOLEAN : CloseTrade(id, 110, c)
    \/ ExportToDict
    \/ \E fresh \in BOOLEAN : ImportFromDict(fresh)

SpecExport == Init /\ [][NextExport]_vars

\* Trades created and sold (auto_update_stop at its default), and backup
\* documents imported at any point.
NextImport ==
    \/ \E in \in TradeInputs, st \in Statuses : CreateTrade(in, st)
    \/ \E id \in TradeIds, pct \in SellPercentages, p \in Prices :
          ExecutePartialSale(id, pct, p, TRUE)
    \/ \E json_string \in JsonStrings : ImportTradesFromJson(json_string)

SpecImport == Init /\ [][NextImport]_vars

----------------------------------------------------------------------------
\* Properties

ValueErrors ==
    {"ValueError: portfolio_value", "ValueError: risk_percentage",
     "ValueError: entry_price", "ValueError: stop_loss", "ValueError: leverage",
     "ValueError: product_type", "ValueError: short direction",
     "ValueError: long direction"}

long_products == {"spot", "cfd_long", "knockout_long"}

RECURSIVE SumUnitsSold(_)
SumUnitsSold(sales) ==
    IF sales = <<>> THEN 0 ELSE sales[1].units_sold + SumUnitsSold(Tail(sales))

RECURSIVE SumPnl(_)
SumPnl(sales) ==
    IF sales = <<>> THEN 0 ELSE sales[1].pnl + SumPnl(Tail(sales))

\* C1: every result returned by calculate_position has
\* units * total_risk_per_unit <= max_risk < (units + 1) * total_risk_per_unit.
\* Stated as claimed; the calculator violates it when the cost parameters
\* make total_risk_per_unit negative (see C10).
C1_FloorRounding ==
    (op.name = "calculate_position" /\ error = "none") =>
        /\ ret[1].units * ret[1].total_risk_per_unit <= ret[1].max_risk
        /\ ret[1].max_risk < (ret[1].units + 1) * ret[1].total_risk_per_unit

\* C2: once the partial sales executed on an open trade add up to its original
\* units, the trade has no units left, is closed, and its final_pnl is the sum
\* of the pnl of its partial-sale records.
C2_SoldOutClosed ==
    \A id \in DOMAIN trades :
        LET t == trades[id]
        IN  (t.partial_sales # <<>> /\ SumUnitsSold(t.partial_sales) = t.original_units) =>
                /\ t.units = 0
                /\ t.status = "closed"
                /\ t.final_pnl = Some(SumPnl(t.partial_sales))

\* A trade of 2 units sold out in two sales or more, with a gain or loss realized.
C2_Witness ==
    \E id \in DOMAIN trades :
        /\ trades[id].original_units = 2
        /\ Len(trades[id].partial_sales) >= 2
        /\ SumUnitsSold(trades[id].partial_sales) = 2
        /\ trades[id].partial_sales[1].units_sold = 1
        /\ trades[id].status = "closed"
        /\ trades[id].final_pnl # Some(0)

\* C3: execute_partial_sale on a trade that is not open returns no sale and
\* leaves the ledger as it was.  Stated as claimed; the code has no status check.
C3_NotOpenRejected ==
    [][(/\ op'.name = "execute_partial_sale"
        /\ op'.trade_id \in DOMAIN trades
        /\ trades[op'.trade_id].status # "open")
       => (ret' = None /\ trades' = trades)]_vars

\* C4: a planned trade has no partial sales.  Stated as claimed; violated
\* through the missing status check of C3.
C4_PlannedNoSales ==
    \A id \in DOMAIN trades :
        trades[id].status = "planned" => trades[id].partial_sales = <<>>

\* C5: no ledger operation increases the units of a trade.  Stated as claimed;
\* update_trade writes any value to units.
C5_UnitsNonIncreasing ==
    [][\A id \in DOMAIN trades \cap DOMAIN trades' :
          trades'[id].units <= trades[id].units]_vars

\* C6: a trade with 0 units is closed.  Stated as claimed; create_trade and
\* update_trade leave the status as given.
C6_ZeroUnitsClosed ==
    \A id \in DOMAIN trades : trades[id].units = 0 => trades[id].status = "closed"

\* The final_pnl C7 claims: the remaining units valued by direction.
C7_ClaimedFinalPnl(t, close_price) ==
    t.total_realized_pnl +
        (IF t.product_type \in short_products
         THEN t.units * (t.entry_price - close_price)
         ELSE t.units * (close_price - t.entry_price))

\* C7: close_trade(id, close_price) with calculate_pnl on a known trade closes
\* it with units 0, the close price, final_pnl = realized + remaining units
\* valued by direction, and final_r_multiple = final_pnl / risk_amount (0 when
\* risk_amount is 0).  Stated as claimed; the code values the remaining units
\* of a short as if they were long.
C7_CloseTradePnl ==
    [][\A id \in DOMAIN trades, p \in Prices :
          CloseTrade(id, p, TRUE) =>
              LET t == trades[id]
                  pnl == C7_ClaimedFinalPnl(t, p)
              IN  /\ trades'[id].status = "closed"
                  /\ trades'[id].close_price = Some(p)
                  /\ trades'[id].units = 0
                  /\ trades'[id].final_pnl = Some(pnl)
                  /\ trades'[id].final_r_multiple =
                         Some(IF t.risk_amount = 0 THEN Zero
                                                   ELSE Frac(pnl, t.risk_amount))]_vars

C9_InvalidInputRejected ==
    [][((\/ /\ op'.name = "__init__"
            /\ \/ op'.portfolio_value <= 0
               \/ op'.risk_percentage <= 0
               \/ op'.risk_percentage > 100
         \/ /\ op'.name = "calculate_position"
            /\ \/ op'.entry_price <= 0
               \/ op'.stop_loss <= 0
               \/ op'.leverage < 1)
        => (error' \in ValueErrors /\ ret' = None /\ calc' = calc))]_vars

\* calculate_position rejected for leverage 0 alone, on an existing calculator.
C9_Witness ==
    /\ op.name = "calculate_position"
    /\ op.entry_price > op.stop_loss
    /\ op.stop_loss > 0
    /\ op.product_type = "cfd_long"
    /\ op.leverage = 0
    /\ error = "ValueError: leverage"
    /\ ret = None
    /\ calc # None

\* C10: a call that passes the input and direction checks either returns a
\* result with total_risk_per_unit > 0 and units >= 0, or fails with a
\* DegenerateRisk error.  Stated as claimed; the code has no such guard.
C10_DegenerateRiskGuarded ==
    (op.name = "calculate_position" /\ error \notin ValueErrors) =>
        \/ /\ error = "none"
           /\ ret[1].total_risk_per_unit > 0
           /\ ret[1].units >= 0
        \/ error = "DegenerateRisk"

\* The result C11 compares with: the same call with leverage 1 and no costs.
C11_Plain == calculate_position(calc[1], op.entry_price, op.stop_loss, "spot", 1, 0, 0, op.holding_days)

\* What C11 claims of a returned spot result.
C11_SpotResult ==
    /\ error = "none"
    /\ ret[1].leverage = 1
    /\ ret[1].spread_cost_total = 0
    /\ ret[1].overnight_cost_total = 0
    /\ ret[1].notional_value = ret[1].actual_investment
    /\ C11_Plain.error = "none"
    /\ ret[1].units = C11_Plain.ret[1].units

\* C11 as claimed: a spot call with entry_price > stop_loss > 0 succeeds for
\* any leverage, spread_percent and overnight_percent, and its result does not
\* depend on them.  Violated: _validate_inputs rejects leverage < 1 for spot too.
C11_SpotAnyLeverage ==
    (/\ op.name = "calculate_position"
     /\ op.product_type = "spot"
     /\ op.entry_price > op.stop_loss
     /\ op.stop_loss > 0) => C11_SpotResult

\* C11 amended: a spot call with entry_price > stop_loss > 0 and leverage >= 1
\* succeeds for any spread_percent and overnight_percent, with leverage 1, no
\* spread or overnight cost, notional_value = actual_investment, and the units
\* of the call with leverage 1 and no costs.
C11_SpotIgnoresCosts ==
    (/\ op.name = "calculate_position"
     /\ op.product_type = "spot"
     /\ op.entry_price > op.stop_loss
     /\ op.stop_loss > 0
     /\ op.leverage >= 1) => C11_SpotResult

\* A spot result returned for leverage 5 and a negative spread, with units bought.
C11_Witness ==
    /\ op.name = "calculate_position"
    /\ op.product_type = "spot"
    /\ op.leverage = 5
    /\ op.spread_percent = -5
    /\ op.overnight_percent = 1
    /\ error = "none"
    /\ ret[1].units > 0
    /\ ret[1].leverage = 1

\* The R-multiple C12 expects of a sale of trade t at a price: profit per unit
\* over the risk per unit between entry_price and the original stop_loss.
C12_RMultiple(t, price) ==
    IF t.product_type \in short_products
    THEN IF t.stop_loss > t.entry_price
         THEN Frac(t.entry_price - price, t.stop_loss - t.entry_price) ELSE Zero
    ELSE IF t.entry_price > t.stop_loss
         THEN Frac(price - t.entry_price, t.entry_price - t.stop_loss) ELSE Zero

\* Stops a trade may have been trailed to.
C12_Stops == {95, 100, 102, 105}

\* C12: the r_multiple of a partial sale depends only on entry_price, the
\* original stop_loss, the direction and the sale price: every recorded sale
\* carries that value whatever current_stop was when it was made, and
\* calculate_partial_sale gives the same r_multiple for a trade and for the
\* same trade with any other current_stop.
C12_ROnlyOriginalStop ==
    \A id \in DOMAIN trades :
        LET t == trades[id]
        IN  /\ \A i \in 1 .. Len(t.partial_sales) :
                   t.partial_sales[i].r_multiple = C12_RMultiple(t, t.partial_sales[i].price)
            /\ \A stop \in C12_Stops, pct \in SellPercentages, price \in Prices :
                   calculate_partial_sale([t EXCEPT !.current_stop = stop], pct, price).r_multiple
                       = calculate_partial_sale(t, pct, price).r_multiple

\* A trade sold twice at one price, the stop trailed in between: both records
\* carry the same r_multiple.
C12_Witness ==
    \E id \in DOMAIN trades :
        LET t == trades[id]
        IN  /\ Len(t.partial_sales) = 2
            /\ t.current_stop # t.stop_loss
            /\ t.partial_sales[1].price = t.partial_sales[2].price
            /\ t.partial_sales[1].r_multiple = t.partial_sales[2].r_multiple
            /\ t.partial_sales[1].r_multiple.n > 0

\* The operations that take a trade id.
C13_Operations == {"get_trade", "update_trade", "close_trade", "delete_trade", "execute_partial_sale"}

\* C13: an operation addressed to an id that is not in the ledger raises
\* nothing, reports None (get_trade, execute_partial_sale) or False
\* (update_trade, close_trade, delete_trade), and leaves the set of trades and
\* every field of every trade as it was.
C13_UnknownIdNoEffect ==
    [][(/\ op'.name \in C13_Operations
        /\ op'.trade_id \notin DOMAIN trades)
       => /\ error' = "none"
          /\ ret' = IF op'.name \in {"get_trade", "execute_partial_sale"}
                    THEN None ELSE Some(FALSE)
          /\ trades' = trades]_vars

\* delete_trade has reported False for an id that was deleted before, on a
\* ledger that still holds another trade.
C13_Witness ==
    /\ op.name = "delete_trade"
    /\ ret = Some(FALSE)
    /\ op.trade_id < next_id
    /\ op.trade_id \notin DOMAIN trades
    /\ \E id \in DOMAIN trades : trades[id].status = "open"

\* The fields C14 says update_trade may change.
C14_Updatable == {"current_stop", "units", "status", "close_price", "close_date", "final_pnl", "final_r_multiple"}

\* C14: update_trade on a known id sets the fields among current_stop, units,
\* status, close_price, close_date, final_pnl and final_r_multiple that appear
\* in updates to the given values; every other field of the trade keeps its
\* value, also when updates names it, and every other trade is unchanged.
C14_UpdateOnlyAllowed ==
    [][\A id \in DOMAIN trades :
          (op'.name = "update_trade" /\ op'.trade_id = id)
          => \A u \in UpdateInputs :
                UpdateTrade(id, u)
                => /\ ret' = Some(TRUE)
                   /\ DOMAIN trades' = DOMAIN trades
                   /\ \A j \in DOMAIN trades \ {id} : trades'[j] = trades[j]
                   /\ DOMAIN trades'[id] = DOMAIN trades[id]
                   /\ \A f \in DOMAIN trades[id] :
                          trades'[id][f] = IF f \in C14_Updatable /\ f \in DOMAIN u
                                           THEN u[f] ELSE trades[id][f]]_vars

\* update_trade has moved the stop of a trade to 102 and left its entry_price
\* and symbol alone, beside a second trade that was partly sold before.
C14_Witness ==
    /\ op.name = "update_trade"
    /\ ret = Some(TRUE)
    /\ op.trade_id \in DOMAIN trades
    /\ trades[op.trade_id].current_stop = 102
    /\ trades[op.trade_id].entry_price = 100
    /\ \E j \in DOMAIN trades \ {op.trade_id} : Len(trades[j].partial_sales) = 1

\* C15: create_trade adds exactly one trade, under an id that was not in the
\* ledger, and returns that id; the new trade has current_stop = stop_loss,
\* units = original_units = the given units, no partial sales,
\* total_realized_pnl 0, no close fields and the given status; the trades
\* already in the ledger are unchanged.
C15_CreateAddsOne ==
    [][\A in \in TradeInputs, st \in Statuses :
          CreateTrade(in, st)
          => \E id \in DOMAIN trades' :
                /\ id \notin DOMAIN trades
                /\ DOMAIN trades' = DOMAIN trades \cup {id}
                /\ ret' = Some(id)
                /\ trades'[id].id = id
                /\ trades'[id].stop_loss = in.stop_loss
                /\ trades'[id].current_stop = trades'[id].stop_loss
                /\ trades'[id].units = in.units
                /\ trades'[id].original_units = in.units
                /\ trades'[id].partial_sales = <<>>
                /\ trades'[id].total_realized_pnl = 0
                /\ trades'[id].close_price = None
                /\ trades'[id].close_date = None
                /\ trades'[id].final_pnl = None
                /\ trades'[id].final_r_multiple = None
                /\ trades'[id].status = st
                /\ \A j \in DOMAIN trades : trades'[j] = trades[j]]_vars

\* A planned trade has just been created beside a trade that was sold from.
C15_Witness ==
    /\ op.name = "create_trade"
    /\ ret = Some(op.trade_id)
    /\ op.trade_id = 2
    /\ DOMAIN trades = {1, 2}
    /\ trades[2].status = "planned"
    /\ trades[2].units = trades[2].original_units
    /\ Len(trades[1].partial_sales) = 1

\* C16: in every ledger state a trade with status planned or open has
\* close_price, close_date, final_pnl and final_r_multiple all absent.
\* Stated as claimed; update_trade sets status back to open on a closed trade
\* and leaves the four close fields populated.
C16_NotClosedNoCloseFields ==
    \A id \in DOMAIN trades :
        trades[id].status \in {"planned", "open"}
        => /\ trades[id].close_price = None
           /\ trades[id].close_date = None
           /\ trades[id].final_pnl = None
           /\ trades[id].final_r_multiple = None

\* C17: every closed trade whose final_pnl was computed and whose risk_amount
\* is positive has final_r_multiple = final_pnl / risk_amount, whether closed
\* by close_trade or by the partial sale that sold its last units.
\* Stated as claimed; the closing partial sale stores the r_multiple of its own
\* slice instead.
C17_FinalRMultiple ==
    \A id \in DOMAIN trades :
        (/\ trades[id].status = "closed"
         /\ trades[id].final_pnl # None
         /\ trades[id].risk_amount > 0)
        => trades[id].final_r_multiple
               = Some(Frac(trades[id].final_pnl[1], trades[id].risk_amount))

\* C17 for close_trade alone: the step of close_trade(calculate_pnl=True) on a
\* trade with positive risk_amount leaves final_r_multiple = final_pnl / risk_amount.
C17_CloseTradeRatio ==
    [][\A id \in TradeIds, p \in Prices :
          (CloseTrade(id, p, TRUE) /\ id \in DOMAIN trades /\ trades[id].risk_amount > 0)
          => trades'[id].final_r_multiple
                 = Some(Frac(trades'[id].final_pnl[1], trades'[id].risk_amount))]_vars

\* The trades of the ledger that have the given status.
C18_WithStatus(status) == {id \in DOMAIN trades : trades[id].status = status}

\* C18: the metrics returned by calculate_portfolio_metrics have
\* total_trades = planned_trades + open_trades + closed_trades, the three
\* counts those of the trades with each status, total_investment,
\* total_exposure and total_risk the sums of investment, exposure and
\* risk_amount over exactly the open trades, and realized_pnl the sum of
\* final_pnl over exactly the closed trades.
C18_MetricsByStatus ==
    op.name = "calculate_portfolio_metrics"
    => LET m == ret[1]
       IN  /\ m.total_trades = m.planned_trades + m.open_trades + m.closed_trades
           /\ m.total_trades = Cardinality(DOMAIN trades)
           /\ m.planned_trades = Cardinality(C18_WithStatus("planned"))
           /\ m.open_trades = Cardinality(C18_WithStatus("open"))
           /\ m.closed_trades = Cardinality(C18_WithStatus("closed"))
           /\ m.total_investment = SumField(trades, C18_WithStatus("open"), "investment")
           /\ m.total_exposure = SumField(trades, C18_WithStatus("open"), "exposure")
           /\ m.total_risk = SumField(trades, C18_WithStatus("open"), "risk_amount")
           /\ m.realized_pnl = SumFinalPnl(trades, C18_WithStatus("closed"))

\* Metrics taken of a ledger with a planned trade and a closed trade that made
\* a profit: nothing counts as invested, the profit is realized.
C18_Witness ==
    /\ op.name = "calculate_portfolio_metrics"
    /\ \E i, j \in DOMAIN trades :
          /\ trades[i].status = "planned"
          /\ trades[i].investment > 0
          /\ trades[j].status = "closed"
          /\ trades[j].investment > 0
          /\ trades[j].final_pnl # None
          /\ trades[j].final_pnl[1] > 0
    /\ ret[1].total_investment = 0
    /\ ret[1].realized_pnl > 0
    /\ ret[1].total_trades = 2

\* The closed trades with a final_pnl above zero.
C19_Winners ==
    {id \in DOMAIN trades : /\ trades[id].status = "closed"
                            /\ trades[id].final_pnl # None
                            /\ trades[id].final_pnl[1] > 0}

\* C19: win_rate is the percentage 100 * winners / closed of closed trades
\* with final_pnl > 0, 0 when no trade is closed; a closed trade without
\* final_pnl is no winner.
C19_WinRatePercent ==
    op.name = "calculate_portfolio_metrics"
    => LET closed == Cardinality({id \in DOMAIN trades : trades[id].status = "closed"})
       IN  ret[1].win_rate = IF closed = 0
                             THEN Zero
                             ELSE Frac(100 * Cardinality(C19_Winners), closed)

\* Metrics of two closed trades, one a winner and one closed without
\* final_pnl: the win rate is 50.
C19_Witness ==
    /\ op.name = "calculate_portfolio_metrics"
    /\ \E i, j \in DOMAIN trades :
          /\ trades[i].status = "closed"
          /\ trades[i].final_pnl # None
          /\ trades[i].final_pnl[1] > 0
          /\ trades[j].status = "closed"
          /\ trades[j].final_pnl = None
    /\ ret[1].closed_trades = 2
    /\ ret[1].win_rate = [n |-> 50, d |-> 1]

\* C20: import_from_dict of what export_to_dict has just returned, into the
\* same TradeManager or into a new one, raises nothing and yields a ledger
\* with the same ids and the same value of every field of every trade, the
\* ordered partial_sales and the close fields (absent or not) included.
C20_ExportImportRoundTrip ==
    [][\A fresh \in BOOLEAN :
          ImportFromDict(fresh)
          => /\ error' = "none"
             /\ DOMAIN trades' = DOMAIN trades
             /\ \A id \in DOMAIN trades :
                    /\ DOMAIN trades'[id] = DOMAIN trades[id]
                    /\ \A f \in DOMAIN trades[id] : trades'[id][f] = trades[id][f]]_vars

\* An export has been imported again, of a ledger with a trade that has two
\* sale records at different prices and its close fields absent.
C20_Witness ==
    /\ op.name = "import_from_dict"
    /\ error = "none"
    /\ \E id \in DOMAIN trades :
          /\ Len(trades[id].partial_sales) = 2
          /\ trades[id].partial_sales[1].price # trades[id].partial_sales[2].price
          /\ trades[id].close_price = None
          /\ trades[id].final_pnl = None

\* C21: a call of import_trades_from_json that does not succeed returns
\* failure (False) and leaves the ledger exactly as it was.
\* Stated as claimed; a record that cannot be turned into a Trade makes the
\* call raise TypeError instead of returning False.
C21_ImportFailsCleanly ==
    [][(op'.name = "import_trades_from_json" /\ ret' # Some(TRUE))
       => /\ ret' = Some(FALSE)
          /\ error' = "none"
          /\ trades' = trades]_vars

\* The part of C21 that holds: an import that does not succeed, by returning
\* False or by raising, leaves the ledger exactly as it was.
C21_FailedImportKeepsLedger ==
    [][(op'.name = "import_trades_from_json" /\ ret' # Some(TRUE))
       => trades' = trades]_vars

\* The call C22 compares with: the same call at leverage 1.
C22_AtLeverageOne == calculate_position(calc[1], op.entry_price, op.stop_loss, op.product_type, 1, op.spread_percent, op.overnight_percent, op.holding_days)

\* C22: with zero spread and overnight cost, the units of a leveraged variant
\* at leverage L >= 1 differ from (units at leverage 1) / L by less than one
\* unit; stated without the division as |L * units(L) - units(1)| < L.
C22_LeverageScaling ==
    (/\ op.name = "calculate_position"
     /\ error = "none"
     /\ op.product_type \in valid_products \ {"spot"}
     /\ op.spread_percent = 0
     /\ op.overnight_percent = 0
     /\ op.leverage >= 1)
    => /\ C22_AtLeverageOne.error = "none"
       /\ Abs(op.leverage * ret[1].units - C22_AtLeverageOne.ret[1].units) < op.leverage

\* A leveraged result at leverage 5 and zero costs whose units are not
\* exactly a fifth of those at leverage 1 (0 against 2).
C22_Witness ==
    /\ op.name = "calculate_position"
    /\ error = "none"
    /\ op.product_type \in valid_products \ {"spot"}
    /\ op.spread_percent = 0
    /\ op.overnight_percent = 0
    /\ op.leverage = 5
    /\ C22_AtLeverageOne.ret[1].units = 2
    /\ ret[1].units = 0

\* entry_price - stop_loss as a distance.
C23_Distance == Abs(op.entry_price - op.stop_loss)

\* C23: every returned result has target_kR = entry_price + k * basis_risk
\* for long variants and entry_price - k * basis_risk for short variants
\* (k = 1, 2, 5), basis_risk being the distance of entry and stop, hence
\* entry_price < target_1r < target_2r < target_5r for long and
\* entry_price > target_1r > target_2r > target_5r for short.
C23_Targets ==
    (op.name = "calculate_position" /\ error = "none")
    => LET r == ret[1]
       IN  IF op.product_type \in short_products
           THEN /\ r.target_1r = op.entry_price - C23_Distance
                /\ r.target_2r = op.entry_price - 2 * C23_Distance
                /\ r.target_5r = op.entry_price - 5 * C23_Distance
                /\ op.entry_price > r.target_1r
                /\ r.target_1r > r.target_2r
                /\ r.target_2r > r.target_5r
           ELSE /\ r.target_1r = op.entry_price + C23_Distance
                /\ r.target_2r = op.entry_price + 2 * C23_Distance
                /\ r.target_5r = op.entry_price + 5 * C23_Distance
                /\ op.entry_price < r.target_1r
                /\ r.target_1r < r.target_2r
                /\ r.target_2r < r.target_5r

\* A result returned for a short variant, its targets below the entry price.
C23_Witness ==
    /\ op.name = "calculate_position"
    /\ error = "none"
    /\ op.product_type = "knockout_short"
    /\ ret[1].target_1r = 95
    /\ ret[1].target_5r = 75

\* The call C24 compares with: the same call with overnight_percent 0.
C24_NoOvernight == calculate_position(calc[1], op.entry_price, op.stop_loss, op.product_type, op.leverage, op.spread_percent, 0, op.holding_days)

\* C24: every result returned for knockout_long or knockout_short has
\* overnight_cost_total = 0, whatever overnight_percent and holding_days were
\* given, and the units of the same call with overnight_percent = 0.
C24_KnockoutNoOvernight ==
    (/\ op.name = "calculate_position"
     /\ error = "none"
     /\ op.product_type \in {"knockout_long", "knockout_short"})
    => /\ ret[1].overnight_cost_total = 0
       /\ C24_NoOvernight.error = "none"
       /\ ret[1].units = C24_NoOvernight.ret[1].units

\* A knockout result with units, returned for overnight_percent 1 at leverage 5.
C24_Witness ==
    /\ op.name = "calculate_position"
    /\ error = "none"
    /\ op.product_type = "knockout_long"
    /\ op.overnight_percent = 1
    /\ op.holding_days = 2
    /\ op.leverage = 5
    /\ ret[1].units > 0
    /\ ret[1].overnight_cost_total = 0

\* C25: calculate_partial_sale recommends moving the stop (should_move_stop,
\* recommended_stop = entry_price) exactly when the r_multiple of the slice is
\* positive and current_stop differs from entry_price; execute_partial_sale
\* sets current_stop to entry_price when auto_update_stop is true and the move
\* is recommended, and leaves current_stop unchanged in every other case.
C25_StopRecommendation ==
    [][\A id \in DOMAIN trades :
          (op'.name = "execute_partial_sale" /\ op'.trade_id = id)
          => \A pct \in SellPercentages, p \in Prices, a \in BOOLEAN :
                ExecutePartialSale(id, pct, p, a)
                => LET t == trades[id]
                       move == ret'[1].r_multiple.n > 0 /\ t.current_stop # t.entry_price
                   IN  /\ ret'[1].should_move_stop = move
                       /\ move => ret'[1].recommended_stop = t.entry_price
                       /\ trades'[id].current_stop =
                              IF a /\ move THEN t.entry_price ELSE t.current_stop]_vars

\* A sale at a profit of a trade whose stop is at the entry price already:
\* no move is recommended and the stop has stayed.
C25_Witness ==
    /\ op.name = "execute_partial_sale"
    /\ ret # None
    /\ ret[1].r_multiple.n > 0
    /\ ~ret[1].should_move_stop
    /\ op.trade_id \in DOMAIN trades
    /\ trades[op.trade_id].current_stop = trades[op.trade_id].entry_price
    /\ Len(trades[op.trade_id].partial_sales) = 2

\* C26: once a trade is closed, a later close_trade or execute_partial_sale
\* on its id changes none of final_pnl, final_r_multiple and close_price.
\* Stated as claimed; both operations run on a closed trade as on an open one
\* and overwrite the three fields.
C26_ClosedIsFinal ==
    [][\A id \in DOMAIN trades :
          (/\ trades[id].status = "closed"
           /\ op'.name \in {"close_trade", "execute_partial_sale"}
           /\ op'.trade_id = id)
          => /\ trades'[id].final_pnl = trades[id].final_pnl
             /\ trades'[id].final_r_multiple = trades[id].final_r_multiple
             /\ trades'[id].close_price = trades[id].close_price]_vars

\* What C27 claims of an open trade t with id id and a price p: close_trade
\* and a sale of 100% both leave it closed with no units and the same final_pnl.
C27_SameLiquidation(id, p) ==
    LET closed == close_trade(trades, id, p, TRUE).trades[id]
        sold == execute_partial_sale(trades, id, 100, p, TRUE).trades[id]
    IN  /\ closed.status = "closed"
        /\ sold.status = "closed"
        /\ closed.units = 0
        /\ sold.units = 0
        /\ closed.final_pnl = sold.final_pnl

\* C27: for every open trade, long or short, with any history of partial
\* sales, close_trade(id, p) and execute_partial_sale(id, 100, p) give the
\* same final_pnl, status closed and units 0.
\* Stated as claimed; close_trade takes the pnl of the remaining units as for
\* a long position (C7), so the two differ for a short trade.
C27_CloseEqualsFullSale ==
    \A id \in DOMAIN trades, p \in Prices :
        trades[id].status = "open" => C27_SameLiquidation(id, p)

\* C27 for long trades alone, which holds.
C27_LongCloseEqualsFullSale ==
    \A id \in DOMAIN trades, p \in Prices :
        (trades[id].status = "open" /\ trades[id].product_type \in long_products)
        => C27_SameLiquidation(id, p)

\* C28: a trade changed by execute_partial_sale alone, with 0 <
\* sell_percentage <= 100, has 0 <= units <= original_units, units plus the
\* units_sold of its sale records equal to original_units, and
\* total_realized_pnl equal to the sum of the pnl of its sale records.
C28_SaleAccounting ==
    \A id \in DOMAIN trades :
        LET t == trades[id]
        IN  /\ 0 <= t.units
            /\ t.units <= t.original_units
            /\ t.units + SumUnitsSold(t.partial_sales) = t.original_units
            /\ t.total_realized_pnl = SumPnl(t.partial_sales)

\* A trade with one unit left after two sales, one of which sold nothing, and
\* a realized pnl that is not zero.
C28_Witness ==
    \E id \in DOMAIN trades :
        /\ Len(trades[id].partial_sales) = 2
        /\ trades[id].units = 1
        /\ trades[id].original_units = 2
        /\ trades[id].total_realized_pnl # 0

\* C29: execute_partial_sale with auto_update_stop never loosens a stop: the
\* current_stop of a long trade does not fall and that of a short trade does
\* not rise.
\* Stated as claimed; a stop trailed past the entry price by update_trade is
\* moved back to the entry price by a sale at a profit.
C29_StopNeverLoosened ==
    [][\A id \in TradeIds, pct \in SellPercentages, p \in Prices :
          (ExecutePartialSale(id, pct, p, TRUE) /\ id \in DOMAIN trades)
          => IF trades[id].product_type \in short_products
             THEN trades'[id].current_stop <= trades[id].current_stop
             ELSE trades'[id].current_stop >= trades[id].current_stop]_vars

\* C30: every sale record has units_sold >= 1, and a sale whose
\* floor(units * sell_percentage / 100) is 0 appends no record and changes no
\* field of the trade.
\* Stated as claimed; execute_partial_sale appends the record of a sale of 0
\* units and moves the stop on it.
C30_NoEmptySale ==
    [][\A id \in TradeIds, pct \in SellPercentages, p \in Prices, a \in BOOLEAN :
          (ExecutePartialSale(id, pct, p, a) /\ id \in DOMAIN trades)
          => /\ \A i \in 1 .. Len(trades'[id].partial_sales) :
                    trades'[id].partial_sales[i].units_sold >= 1
             /\ (trades[id].units * pct) \div 100 = 0 => trades'[id] = trades[id]]_vars

====
